---- MODULE Spec2Model ----
(***************************************************************************)
(* A model of the arxiv-paper-collector pipeline.                          *)
(*                                                                         *)
(*   SpecCompile : PdfCompiler.compile / batch_compile (pdf_compiler.py)   *)
(*   SpecFilter  : PaperFilter.filter_papers (paper_filter.py)             *)
(*   SpecFetch   : ArxivFetcher._remove_duplicates (arxiv_fetcher.py)      *)
(*   SpecLatex   : the LaTeX template filters (latex_generator.py)         *)
(*   SpecGenerate: LatexGenerator.generate_latex (latex_generator.py)      *)
(*   SpecScheduler: PaperScheduler start / stop / loop (scheduler.py)      *)
(*                                                                         *)
(* External processes (the LaTeX engine) and the file system are the       *)
(* environment: every outcome subprocess.run can produce is a              *)
(* nondeterministic choice of the action that runs it.                     *)
(***************************************************************************)
EXTENDS Integers, Sequences, FiniteSets, TLC

(***************************************************************************)
(* Bounds of the model.                                                    *)
(***************************************************************************)
MaxDocs == 2        \* longest latex_files list given to batch_compile
MaxAttempts == 2    \* largest value of PdfCompiler.attempts
MaxPapers == 2      \* longest papers list given to filter_papers
MaxFetched == 3     \* longest papers list given to _remove_duplicates
MaxText == 2        \* longest of the short texts given to the LaTeX filters
MaxLength == 10     \* largest max_length given to _truncate_latex
MaxGroupSize == 3   \* longest group given to generate_latex
MaxCap == 3         \* largest max_papers given to generate_latex
MaxThreads == 2     \* most loop threads one PaperScheduler starts
MaxJobs == 1        \* most jobs registered with schedule at a time

(***************************************************************************)
(* PdfCompiler: values                                                     *)
(***************************************************************************)
\* Directories are absolute paths, so that Python and the engine (started
\* with cwd = latex_path.parent) mean the same directory by the same name.
SrcDir == "latex"   \* latex_path.parent, the directory of the documents
OutDir == "papers"  \* some other directory

Docs == 1..MaxDocs  \* document base names (doc k is SrcDir/k.tex)

\* aux_extensions of _clean_aux_files (two of the eleven are modelled)
AuxExtensions == <<"aux", "log">>

AuxExtSet == {AuxExtensions[k] : k \in 1..Len(AuxExtensions)}

\* a file of the file system: <<directory, base name, extension>>
File(dir, doc, ext) == <<dir, doc, ext>>

\* the fatal-error sentinels searched in the engine's output
FatalMarkers == {"Fatal error", "! Emergency stop"}

NoMarker == "no marker"

\* output_dir as the caller passes it: None or a str (Optional[str])
NoneDir == [type |-> "None", dir |-> "None"]

OutputDirArgs == {NoneDir} \cup [type : {"str"}, dir : {SrcDir, OutDir}]

\* latex_path.parent is a pathlib.Path
ParentOf(doc) == [type |-> "Path", dir |-> SrcDir]

\* Python's != between output_dir and latex_path.parent: a str never equals
\* a Path, two Paths are compared by their parts
PyNotEqual(a, b) == a.type # b.type \/ a.dir # b.dir

\* what subprocess.run([engine, "--version"]) can do
ProbeOutcomes ==
    {"rc0", "rc_nonzero", "FileNotFoundError", "TimeoutExpired", "PermissionError"}

\* what subprocess.run(cmd, capture_output, text, timeout, cwd) can do in one
\* attempt: return a CompletedProcess (exc = "none"), raise TimeoutExpired after
\* killing the process, or raise something else (the engine cannot be started,
\* the output cannot be decoded)
CompletedRuns ==
    [exc : {"none"}, returncode : {0, 1},
     stdout : FatalMarkers \cup {NoMarker}, stderr : FatalMarkers \cup {NoMarker},
     wrote_pdf : BOOLEAN]

RaisedRuns ==
    [exc : {"TimeoutExpired", "Exception"}, returncode : {-1},
     stdout : {NoMarker}, stderr : {NoMarker}, wrote_pdf : {FALSE}]

RunOutcomes == CompletedRuns \cup RaisedRuns

NoRun ==
    [exc |-> "no run", returncode |-> -1, stdout |-> NoMarker,
     stderr |-> NoMarker, wrote_pdf |-> FALSE]

\* return values of compile
NoneValue == [kind |-> "None", dir |-> "None", doc |-> 0]

PathValue(dir, doc) == [kind |-> "path", dir |-> dir, doc |-> doc]

RaiseValue == [kind |-> "raise", dir |-> "FileNotFoundError", doc |-> 0]

RaiseProbe == [kind |-> "raise", dir |-> "PermissionError", doc |-> 0]

\* a log record of logger.error
LogMsg(msg, n) == [msg |-> msg, attempt |-> n]

VARIABLES
    attempts,       \* self.attempts
    latex_files,    \* batch_compile's latex_files
    output_dir,     \* batch_compile's output_dir, handed to every compile
    fs,             \* the files that exist
    pc,             \* where batch_compile / compile stands
    idx,            \* number of documents whose compile has ended
    successful,     \* batch_compile's successful list
    attempt,        \* attempts started by the running compile
    runs,           \* the attempts of the running compile, in order
    engine,         \* outcome of the running compile's engine probe
    lastRun,        \* outcome of the most recent subprocess.run of an attempt
    log,            \* logger.error records of the running compile
    results,        \* one record per compile that has ended
    unlink_failed,  \* extensions whose unlink raised in the last clean-up
    alive,          \* the engine processes that run: 0 the probe, n attempt n
    keywords,       \* PaperFilter.keywords, the rule set
    papers,         \* filter_papers' papers
    grouped_papers, \* the mapping filter_papers returned
    fpc,            \* where the filter call stands
    relevance,      \* the record _calculate_relevance was called for, its score
    min_relevance,  \* filter_by_relevance's min_relevance
    scored_papers,  \* the list filter_by_relevance returned
    match_any,      \* filter_papers' match_any
    kw_call,        \* a call of _keyword_matches: keyword, record, result
    raw_papers,     \* _remove_duplicates' papers
    unique_papers,  \* the list _remove_duplicates returned
    dpc,            \* where the fetcher's deduplication stands
    latex_text,     \* the text given to a LaTeX filter
    max_length,     \* _truncate_latex's max_length (abstract_max_length)
    suffix,         \* _truncate_latex's suffix
    latex_out,      \* the text the filter returned
    lpc,            \* where the filter application stands
    group_papers,   \* generate_latex's papers, the group mapping
    max_papers,     \* generate_latex's max_papers
    template_load,  \* what self.env.get_template does
    output_path,    \* generate_latex's output_path
    dest_dir,       \* state of the directory of output_path
    context,        \* the template context
    document,       \* latex_content, the rendered document
    written,        \* the document is in the file output_path
    gen_result,     \* what generate_latex returned or raised
    gpc,            \* where generate_latex stands
    running,        \* self.running
    thread,         \* self.thread: 0 is None, n the n-th thread started
    threads,        \* the loop threads started, in order: position, timer
    spc,            \* where the caller of start() / stop() stands
    join_left,      \* seconds left of stop()'s join
    jobs,           \* number of jobs registered with schedule
    stopped,        \* the threads a stop() that has returned was for
    ran_since_stop, \* the threads that ran a job since stop() last returned
    last_call       \* what the last start() / stop() did

compileVars ==
    <<attempts, latex_files, output_dir, fs, pc, idx, successful, attempt,
      runs, engine, lastRun, log, results, unlink_failed, alive>>

filterVars ==
    <<keywords, papers, grouped_papers, fpc, relevance, min_relevance,
      scored_papers, match_any, kw_call>>

fetchVars == <<raw_papers, unique_papers, dpc>>

latexVars == <<latex_text, max_length, suffix, latex_out, lpc>>

generateVars ==
    <<group_papers, max_papers, template_load, output_path, dest_dir, context,
      document, written, gen_result, gpc>>

schedulerVars ==
    <<running, thread, threads, spc, join_left, jobs, stopped, ran_since_stop,
      last_call>>

vars ==
    <<compileVars, filterVars, fetchVars, latexVars, generateVars,
      schedulerVars>>

\* what the operations of one component leave alone
exceptCompile ==
    <<filterVars, fetchVars, latexVars, generateVars, schedulerVars>>
exceptFilter ==
    <<compileVars, fetchVars, latexVars, generateVars, schedulerVars>>
exceptFetch ==
    <<compileVars, filterVars, latexVars, generateVars, schedulerVars>>
exceptLatex ==
    <<compileVars, filterVars, fetchVars, generateVars, schedulerVars>>
exceptGenerate ==
    <<compileVars, filterVars, fetchVars, latexVars, schedulerVars>>
exceptScheduler ==
    <<compileVars, filterVars, fetchVars, latexVars, generateVars>>

(***************************************************************************)
(* PdfCompiler: pure parts                                                 *)
(***************************************************************************)

_check_engine_anyrc(probe) ==
    CASE probe \in {"rc0", "rc_nonzero"} -> "True"
      [] probe \in {"FileNotFoundError", "TimeoutExpired"} -> "False"
      [] OTHER -> "raise"

\* _check_engine: "True", "False", or the exception that escapes it
_check_engine(probe) ==
    CASE probe = "rc0" -> "True"
      [] probe = "rc_nonzero" -> "False"
      [] probe \in {"FileNotFoundError", "TimeoutExpired"} -> "False"
      [] OTHER -> "raise"

_run_compilation_one_marker(run) ==
    IF run.exc = "TimeoutExpired" THEN FALSE
    ELSE IF run.exc # "none" THEN FALSE
    ELSE IF run.returncode # 0 THEN FALSE
    ELSE IF run.stdout = "Fatal error" THEN FALSE
    ELSE TRUE

\* _run_compilation's return value for one outcome of subprocess.run
_run_compilation(run) ==
    IF run.exc = "TimeoutExpired" THEN FALSE
    ELSE IF run.exc # "none" THEN FALSE
    ELSE IF run.returncode # 0 THEN FALSE
    ELSE IF run.stdout \in FatalMarkers THEN FALSE
    ELSE TRUE

_run_compilation_log_swapped(run, n) ==
    IF run.exc # "none" THEN <<LogMsg("Compilation error: e", 0)>>
    ELSE IF run.returncode # 0 THEN <<LogMsg("Compilation error (attempt)", n)>>
    ELSE IF run.stdout \in FatalMarkers
         THEN <<LogMsg("Fatal error in LaTeX compilation (attempt)", n)>>
    ELSE <<>>

\* what _run_compilation logs at error level for one outcome
_run_compilation_log(run, n) ==
    IF run.exc = "TimeoutExpired" THEN <<LogMsg("Compilation timed out", 0)>>
    ELSE IF run.exc # "none" THEN <<LogMsg("Compilation error: e", 0)>>
    ELSE IF run.returncode # 0 THEN <<LogMsg("Compilation error (attempt)", n)>>
    ELSE IF run.stdout \in FatalMarkers
         THEN <<LogMsg("Fatal error in LaTeX compilation (attempt)", n)>>
    ELSE <<>>

AfterAttemptRetry(success) == "next attempt"

\* the attempt loop's decision after one attempt
AfterAttempt(success) == IF ~success THEN "return None" ELSE "next attempt"

\* the files the engine leaves behind: it is started with
\* -output-directory=dir and writes there
EngineWrites(run, dir, doc) ==
    IF run.exc = "Exception" THEN {}
    ELSE {File(dir, doc, e) : e \in AuxExtSet}
         \cup (IF run.wrote_pdf THEN {File(dir, doc, "pdf")} ELSE {})

\* output_dir after lines 59-62
ResolvedOutputDir(arg, doc) == IF arg.type = "None" THEN ParentOf(doc) ELSE arg

\* the kind of failure of a compile that ended, for the record
FailKind(ret, eng, run) ==
    IF ret.kind = "path" THEN "none"
    ELSE IF ret.kind = "raise" THEN "raise"
    ELSE IF eng = "not probed" THEN "no file"
    ELSE IF _check_engine(eng) # "True" THEN "engine"
    ELSE IF run.exc = "TimeoutExpired" THEN "timeout"
    ELSE IF run.exc = "Exception" THEN "exception"
    ELSE IF run.exc = "none" /\ run.returncode # 0 THEN "nonzero exit"
    ELSE IF run.exc = "none" /\ run.stdout \in FatalMarkers THEN "fatal marker"
    ELSE "no pdf"

(***************************************************************************)
(* PdfCompiler: the state machine                                          *)
(***************************************************************************)

\* a float that is the quotient of two small integers, den > 0
Frac(n, d) == [num |-> n, den |-> d]

\* filter_by_relevance's default min_relevance, 0.3
DefaultMinRelevance == Frac(3, 10)

\* no _calculate_relevance call has returned
NoRelevance == [paper |-> 0, score |-> Frac(0, 1)]

\* no _keyword_matches call has returned
NoKwCall == [keyword |-> <<>>, paper |-> 0, result |-> FALSE]

\* no filter call is under way
IdleFilter ==
    /\ keywords = <<>>
    /\ papers = <<>>
    /\ grouped_papers = <<>>
    /\ fpc = "idle"
    /\ relevance = NoRelevance
    /\ min_relevance = DefaultMinRelevance
    /\ scored_papers = <<>>
    /\ match_any = FALSE
    /\ kw_call = NoKwCall

\* no deduplication is under way
IdleFetch ==
    /\ raw_papers = <<>>
    /\ unique_papers = <<>>
    /\ dpc = "idle"

\* _truncate_latex's default suffix "..."
DefaultSuffix == <<".", ".", ".">>

\* no LaTeX filter is being applied
IdleLatex ==
    /\ latex_text = <<>>
    /\ max_length = 0
    /\ suffix = DefaultSuffix
    /\ latex_out = <<>>
    /\ lpc = "idle"

\* generate_latex's default max_papers
DefaultMaxPapers == 50

\* a context and a document of no groups
NoContext == [groups |-> <<>>, total_papers |-> 0, total_groups |-> 0]
NoDocument == [total_papers |-> 0, total_groups |-> 0, sections |-> <<>>]

\* the path "report.tex" in the current directory
BarePath == [dir |-> "", name |-> "report.tex"]

\* no generate_latex call is under way
IdleGenerate ==
    /\ group_papers = <<>>
    /\ max_papers = DefaultMaxPapers
    /\ template_load = "TemplateNotFound"
    /\ output_path = BarePath
    /\ dest_dir = "exists"
    /\ context = NoContext
    /\ document = NoDocument
    /\ written = FALSE
    /\ gen_result = "none"
    /\ gpc = "idle"

\* the PaperScheduler as __init__ leaves it, no job registered
IdleScheduler ==
    /\ running = FALSE
    /\ thread = 0
    /\ threads = <<>>
    /\ spc = "idle"
    /\ join_left = 0
    /\ jobs = 0
    /\ stopped = {}
    /\ ran_since_stop = {}
    /\ last_call = "none"

InitCompile ==
    /\ IdleFilter
    /\ IdleFetch
    /\ IdleLatex
    /\ IdleGenerate
    /\ IdleScheduler
    /\ attempts \in 0..MaxAttempts
    /\ \E n \in 0..MaxDocs : latex_files = [k \in 1..n |-> k]
    /\ output_dir \in OutputDirArgs
    /\ \E present \in SUBSET {d \in Docs : d <= Len(latex_files)} :
       \E stale \in SUBSET present :
          fs = {File(SrcDir, d, "tex") : d \in present}
               \cup {File(SrcDir, d, "pdf") : d \in stale}
    /\ pc = "batch_loop"
    /\ idx = 0
    /\ successful = <<>>
    /\ attempt = 0
    /\ runs = <<>>
    /\ engine = "not probed"
    /\ lastRun = NoRun
    /\ log = <<>>
    /\ results = <<>>
    /\ unlink_failed = {}
    /\ alive = {}

\* compile ends for the current document with `ret`; batch_compile lines
\* 234-236 take the value (or the exception passes through batch_compile)
EndCompile(ret, eng, run, lg, fsNow) ==
    /\ results' = Append(results,
                         [doc |-> latex_files[idx + 1], ret |-> ret,
                          failKind |-> FailKind(ret, eng, run)])
    /\ engine' = eng
    /\ log' = lg
    /\ fs' = fsNow
    /\ IF ret.kind = "raise"
       THEN /\ pc' = "batch_raised"
            /\ UNCHANGED <<idx, successful>>
       ELSE /\ pc' = "batch_loop"
            /\ idx' = idx + 1
            /\ successful' = IF ret.kind = "path"
                             THEN Append(successful, ret) ELSE successful

\* batch_compile's loop takes the next document and calls compile, which
\* runs up to the engine probe (lines 233-234, 54-64)
StartCompile ==
    /\ pc = "batch_loop"
    /\ idx < Len(latex_files)
    /\ attempt' = 0
    /\ runs' = <<>>
    /\ lastRun' = NoRun
    /\ unlink_failed' = {}
    /\ IF File(SrcDir, latex_files[idx + 1], "tex") \notin fs
       THEN EndCompile(NoneValue, "not probed", NoRun,
                       <<LogMsg("LaTeX file not found", 0)>>, fs)
       ELSE /\ pc' = "engine_check"
            /\ engine' = "not probed"
            /\ log' = <<>>
            /\ UNCHANGED <<fs, idx, successful, results>>
    /\ UNCHANGED <<attempts, latex_files, output_dir, alive>>
    /\ UNCHANGED exceptCompile

\* subprocess.run starts the process of the probe (proc = 0) or of attempt
\* proc, unless the engine cannot be started
PopenStarts(procs, proc, started) == IF started THEN procs \cup {proc} ELSE procs

subprocess_run_leaves_timed_out(procs, proc, exc) ==
    IF exc = "TimeoutExpired" THEN procs ELSE procs \ {proc}

\* subprocess.run returns or raises `exc`: the process has exited, or
\* subprocess.run has killed it and waited for it (timeout, other exception)
subprocess_run_ends(procs, proc, exc) == procs \ {proc}

\* _check_engine calls subprocess.run, which starts the probe (line 163)
SpawnProbe ==
    /\ pc = "engine_check"
    /\ \E started \in BOOLEAN : alive' = PopenStarts(alive, 0, started)
    /\ pc' = "probe_running"
    /\ UNCHANGED <<attempts, latex_files, output_dir, fs, idx, successful,
                   attempt, runs, engine, lastRun, log, results, unlink_failed>>
    /\ UNCHANGED exceptCompile

\* the engine probe ends (lines 66-69, 155-170)
CheckEngine ==
    /\ pc = "probe_running"
    /\ \E probe \in ProbeOutcomes :
          /\ (0 \in alive) <=> (probe \in {"rc0", "rc_nonzero", "TimeoutExpired"})
          /\ alive' = subprocess_run_ends(alive, 0, probe)
          /\ CASE _check_engine(probe) = "True" ->
                    /\ engine' = probe
                    /\ pc' = "attempt_loop"
                    /\ UNCHANGED <<fs, idx, successful, log, results>>
               [] _check_engine(probe) = "False" ->
                    EndCompile(NoneValue, probe, NoRun,
                               <<LogMsg("LaTeX engine not found", 0)>>, fs)
               [] OTHER ->
                    EndCompile(RaiseProbe, probe, NoRun, <<>>, fs)
    /\ UNCHANGED <<attempts, latex_files, output_dir, attempt, runs, lastRun,
                   unlink_failed>>
    /\ UNCHANGED exceptCompile

\* the loop starts attempt n: _run_compilation calls subprocess.run, which
\* starts the engine (lines 72-73, 125-131)
SpawnAttempt ==
    /\ pc = "attempt_loop"
    /\ attempt < attempts
    /\ \E started \in BOOLEAN : alive' = PopenStarts(alive, attempt + 1, started)
    /\ pc' = "process_running"
    /\ UNCHANGED <<attempts, latex_files, output_dir, fs, idx, successful,
                   attempt, runs, engine, lastRun, log, results, unlink_failed>>
    /\ UNCHANGED exceptCompile

\* subprocess.run ends and _run_compilation returns (lines 125-153)
RunAttempt ==
    /\ pc = "process_running"
    /\ \E run \in RunOutcomes :
          LET n == attempt + 1
              doc == latex_files[idx + 1]
              dir == ResolvedOutputDir(output_dir, doc).dir
          IN  /\ n \notin alive => run.exc = "Exception"
              /\ alive' = subprocess_run_ends(alive, n, run.exc)
              /\ attempt' = n
              /\ lastRun' = run
              /\ runs' = Append(runs, [n |-> n, success |-> _run_compilation(run),
                                     wrote_pdf |-> run.wrote_pdf])
              /\ log' = log \o _run_compilation_log(run, n)
              /\ fs' = fs \cup EngineWrites(run, dir, doc)
    /\ pc' = "attempt_returned"
    /\ UNCHANGED <<attempts, latex_files, output_dir, idx, successful, engine,
                   results, unlink_failed>>
    /\ UNCHANGED exceptCompile

\* the loop body looks at the attempt's result (lines 74-76)
CheckAttempt ==
    /\ pc = "attempt_returned"
    /\ lastRun' = NoRun
    /\ IF AfterAttempt(runs[Len(runs)].success) = "return None"
       THEN EndCompile(NoneValue, engine, lastRun,
                       log \o <<LogMsg("Compilation failed on attempt", attempt)>>,
                       fs)
       ELSE /\ pc' = "attempt_loop"
            /\ UNCHANGED <<fs, idx, successful, engine, log, results>>
    /\ UNCHANGED <<attempts, latex_files, output_dir, attempt, runs,
                   unlink_failed, alive>>
    /\ UNCHANGED exceptCompile

\* _clean_aux_files(latex_path.with_suffix('')): the auxiliary files beside
\* the document are unlinked; `stuck` are those whose unlink raises, which is
\* logged as a warning and the loop goes on
_clean_aux_files(files, doc, stuck) ==
    files \ {File(SrcDir, doc, e) : e \in AuxExtSet \ stuck}

\* after the loop: find, move and clean (lines 78-95)
Locate ==
    /\ pc = "attempt_loop"
    /\ attempt = attempts
    /\ LET doc == latex_files[idx + 1]
           out == ResolvedOutputDir(output_dir, doc)
           src_pdf == File(SrcDir, doc, "pdf")
           moves == PyNotEqual(out, ParentOf(doc))
           target_pdf == File(out.dir, doc, "pdf")
       IN  IF moves /\ src_pdf \notin fs
           THEN \* shutil.move raises FileNotFoundError
                /\ EndCompile(RaiseValue, engine, NoRun, log, fs)
                /\ unlink_failed' = {}
           ELSE LET moved == IF moves THEN (fs \ {src_pdf}) \cup {target_pdf} ELSE fs
                    pdf_path == IF moves THEN target_pdf ELSE src_pdf
                IN  IF pdf_path \in moved
                    THEN \E stuck \in SUBSET {e \in AuxExtSet :
                                                File(SrcDir, doc, e) \in moved} :
                            /\ EndCompile(PathValue(pdf_path[1], doc), engine, NoRun,
                                          log, _clean_aux_files(moved, doc, stuck))
                            /\ unlink_failed' = stuck
                    ELSE /\ EndCompile(NoneValue, engine, NoRun,
                                       log \o <<LogMsg("PDF file was not generated", 0)>>,
                                       moved)
                         /\ unlink_failed' = {}
    /\ UNCHANGED <<attempts, latex_files, output_dir, attempt, runs, lastRun,
                   alive>>
    /\ UNCHANGED exceptCompile

\* batch_compile returns its list (lines 238-240)
BatchReturn ==
    /\ pc = "batch_loop"
    /\ idx = Len(latex_files)
    /\ pc' = "batch_done"
    /\ UNCHANGED <<attempts, latex_files, output_dir, fs, idx, successful,
                   attempt, runs, engine, lastRun, log, results, unlink_failed,
                   alive>>
    /\ UNCHANGED exceptCompile

NextCompile ==
    \/ StartCompile \/ SpawnProbe \/ CheckEngine \/ SpawnAttempt \/ RunAttempt
    \/ CheckAttempt \/ Locate \/ BatchReturn

SpecCompile == InitCompile /\ [][NextCompile]_vars

(***************************************************************************)
(* PdfCompiler: properties                                                 *)
(***************************************************************************)

\* a compile has ended and no other has started: runs, engine, attempt and
\* log are those of the compile recorded last
CompileEnded ==
    /\ pc \in {"batch_loop", "batch_done", "batch_raised"}
    /\ results # <<>>

LastResult == results[Len(results)]

AllSucceeded(rs) == \A k \in 1..Len(rs) : rs[k].success

\* C1: the attempts of a compile run in order 1..N; an attempt is started
\* only when every earlier one succeeded, so the first failed attempt is the
\* last one, it is not run again, and the compile it belongs to returns None.
C1_FirstFailureAborts ==
    /\ Len(runs) = attempt
    /\ attempt <= attempts
    /\ \A k \in 1..Len(runs) : runs[k].n = k
    /\ \A k \in 1..(Len(runs) - 1) : runs[k].success
    /\ pc = "attempt_loop" => AllSucceeded(runs)
    /\ (CompileEnded /\ ~AllSucceeded(runs)) => LastResult.ret = NoneValue

\* C1 witness: attempt 1 of 2 failed and the compile has ended
C1_Witness ==
    /\ CompileEnded
    /\ attempts = 2
    /\ Len(runs) = 1
    /\ ~runs[1].success

\* C2: an attempt is started only after an engine probe that exited 0; a
\* compile whose probe found the engine missing, exited non-zero or timed out
\* returns None with no attempt started.
C2_EngineCheckFirst ==
    /\ runs # <<>> => engine = "rc0"
    /\ pc \in {"attempt_loop", "attempt_returned"} => engine = "rc0"
    /\ (CompileEnded /\ engine \in {"rc_nonzero", "FileNotFoundError", "TimeoutExpired"})
          => /\ LastResult.ret = NoneValue
             /\ runs = <<>>
             /\ attempt = 0

\* C2 witness: a compile ended on a probe that exited non-zero, with attempts
\* configured
C2_Witness ==
    /\ CompileEnded
    /\ engine = "rc_nonzero"
    /\ attempts >= 1

\* C3 (as amended): an attempt is reported successful iff subprocess.run
\* returned (no timeout, no other exception) with exit code 0 and no
\* fatal-error marker in stdout; stderr is not looked at.
C3_SuccessIffStdoutClean ==
    pc = "attempt_returned" =>
        (runs[Len(runs)].success <=>
             /\ lastRun.exc = "none"
             /\ lastRun.returncode = 0
             /\ lastRun.stdout \notin FatalMarkers)

\* C3 witness: an attempt whose stderr holds a marker is reported successful
C3_Witness ==
    /\ pc = "attempt_returned"
    /\ lastRun.exc = "none"
    /\ lastRun.stderr \in FatalMarkers
    /\ runs[Len(runs)].success

\* C3 as stated: successful iff exit code 0, within the timeout, and no
\* fatal-error marker anywhere in stdout and stderr.
C3_Original ==
    pc = "attempt_returned" =>
        (runs[Len(runs)].success <=>
             /\ lastRun.exc = "none"
             /\ lastRun.returncode = 0
             /\ lastRun.stdout \notin FatalMarkers
             /\ lastRun.stderr \notin FatalMarkers)

FailedOnAttempt == {"timeout", "exception", "nonzero exit", "fatal marker"}

EngineDir == ResolvedOutputDir(output_dir, 0).dir

\* C5 as stated: when the probe passed and all N >= 1 attempts succeeded, the
\* engine having written <base>.pdf into the -output-directory, compile has
\* returned <output_dir>/<base>.pdf and that file exists.
C5_Original ==
    (/\ CompileEnded
     /\ engine = "rc0"
     /\ attempts >= 1
     /\ Len(runs) = attempts
     /\ AllSucceeded(runs)
     /\ runs[Len(runs)].wrote_pdf)
        => /\ LastResult.ret = PathValue(EngineDir, LastResult.doc)
           /\ File(EngineDir, LastResult.doc, "pdf") \in fs

\* the artifacts of the compiles in rs that returned a path, in order
RECURSIVE Artifacts(_)
Artifacts(rs) ==
    IF rs = <<>> THEN <<>>
    ELSE (IF Head(rs).ret.kind = "path" THEN <<Head(rs).ret>> ELSE <<>>)
         \o Artifacts(Tail(rs))

\* C6 as stated: when batch_compile ends, every document of latex_files has
\* been compiled, in order, and the list returned is the artifacts of those
\* that succeeded, in input order.
C6_Original ==
    pc \in {"batch_done", "batch_raised"} =>
        /\ pc = "batch_done"
        /\ Len(results) = Len(latex_files)
        /\ \A k \in 1..Len(results) : results[k].doc = latex_files[k]
        /\ successful = Artifacts(results)

\* C7 as stated: no exception escapes compile or batch_compile.
C7_Original == pc # "batch_raised"

(***************************************************************************)
(* PaperFilter: values                                                     *)
(*                                                                         *)
(* A text is a sequence of one-character strings.  A Python dict is a      *)
(* sequence of [name, value] entries with distinct names, in insertion     *)
(* order.                                                                  *)
(***************************************************************************)

\* str.lower() on one character
LowerChar(c) ==
    CASE c = "A" -> "a"
      [] c = "I" -> "i"
      [] OTHER -> c

\* str.lower()
Lower(t) == [k \in 1..Len(t) |-> LowerChar(t[k])]

\* regex \w for the characters used here
IsWordChar(c) == c # " "

\* the keyword phrases a rule group may list
Keywords == {<<"A", "i">>, <<"d">>}

\* a group name mapped to no list at all (`ai:` in the YAML file): the value
\* None, written as a value of the shape of a list so that it can be compared
\* with the lists; no list of keywords is equal to it
NoneList == << <<"None">> >>

\* the keyword lists a rule group may have
KeywordLists ==
    {<<>>} \cup {<<k>> : k \in Keywords}
           \cup {<<"A", "i">>, <<"d">>} \X {<<"d">>}
           \cup {NoneList}

GroupNames == {"ai", "physics", "uncategorized"}

\* the rule sets: dicts from at most two group names to keyword lists
RuleSets ==
    {<<>>}
    \cup {<<[name |-> n, value |-> l]>> : n \in GroupNames, l \in KeywordLists}
    \cup {<<[name |-> n1, value |-> l1], [name |-> n2, value |-> l2]>> :
            <<n1, n2, l1, l2>> \in
               {q \in GroupNames \X GroupNames \X KeywordLists \X KeywordLists :
                   q[1] # q[2]}}

\* title and summary of the records
PaperTexts ==
    { [title |-> <<"A", "I">>, summary |-> <<>>],
      [title |-> <<"m", "a", "i", "d">>, summary |-> <<>>],
      [title |-> <<"m">>, summary |-> <<"d">>],
      [title |-> <<"m">>, summary |-> <<>>] }

\* a record; arxiv_id is its identifier and stands for id(paper) too: in a
\* deduplicated list every record is an object of its own
Paper(i, t) == [arxiv_id |-> i, title |-> t.title, summary |-> t.summary]

\* the deduplicated input lists: record k has the identifier k
PaperLists ==
    UNION {{[k \in 1..n |-> Paper(k, f[k])] : f \in [1..n -> PaperTexts]} :
              n \in 0..MaxPapers}

(***************************************************************************)
(* PaperFilter: the code                                                   *)
(***************************************************************************)

\* Python's `k in t` for strings
StrContains(t, k) ==
    \E i \in 0..(Len(t) - Len(k)) : \A j \in 1..Len(k) : t[i + j] = k[j]

\* a regex \b at position p of t (between t[p] and t[p + 1])
WordBoundary(t, p) ==
    (p >= 1 /\ IsWordChar(t[p])) # (p + 1 <= Len(t) /\ IsWordChar(t[p + 1]))

\* re.search(r'\b' + re.escape(k) + r'\b', t)
ReSearchWord(t, k) ==
    \E i \in 0..(Len(t) - Len(k)) :
        /\ \A j \in 1..Len(k) : t[i + j] = k[j]
        /\ WordBoundary(t, i)
        /\ WordBoundary(t, i + Len(k))

_keyword_matches_whole_word(keyword, text) == ReSearchWord(text, Lower(keyword))

\* _keyword_matches (lines 100-109)
_keyword_matches(keyword, text) ==
    IF StrContains(text, Lower(keyword)) THEN TRUE
    ELSE IF ReSearchWord(text, Lower(keyword)) THEN TRUE
    ELSE FALSE

\* _matches_keywords (lines 78-87)
_matches_keywords(paper, group_keywords) ==
    LET text_to_search == Lower(paper.title) \o <<" ">> \o Lower(paper.summary)
    IN  \E k \in 1..Len(group_keywords) :
            _keyword_matches(group_keywords[k], text_to_search)

\* dict: the names in use
DictKeys(d) == {d[k].name : k \in 1..Len(d)}

\* dict: d[name]
DictGet(d, name) == d[CHOOSE k \in 1..Len(d) : d[k].name = name].value

\* dict: d[name] = value; a new name is appended, a name in use keeps its
\* place and takes the new value
DictSet(d, name, value) ==
    IF name \in DictKeys(d)
    THEN [k \in 1..Len(d) |->
            IF d[k].name = name THEN [name |-> name, value |-> value] ELSE d[k]]
    ELSE Append(d, [name |-> name, value |-> value])

\* `for keyword in keywords` (line 83) raises TypeError when the list is
\* None; it is reached once for every record of every group
IterRaises(ps, group_keywords) == ps # <<>> /\ group_keywords = NoneList

\* the inner loop (lines 45-49): the records matching one group, in order
MatchedPapers(ps, group_keywords) ==
    SelectSeq(ps, LAMBDA paper : _matches_keywords(paper, group_keywords))

\* the outer loop (lines 44-52) from rule g on: the mapping and the ids of
\* all matched records
RECURSIVE GroupLoop(_, _, _, _, _)
GroupLoop(kw, ps, g, grouped, all_matched) ==
    IF g > Len(kw) THEN [grouped |-> grouped, all_matched |-> all_matched]
    ELSE LET matched == MatchedPapers(ps, kw[g].value)
         IN  GroupLoop(kw, ps, g + 1, DictSet(grouped, kw[g].name, matched),
                       all_matched \cup {matched[k].arxiv_id : k \in 1..Len(matched)})

\* the catch-all key
Uncategorized == "uncategorized"

\* filter_papers (lines 41-64)
filter_papers(kw, ps) ==
    LET looped == GroupLoop(kw, ps, 1, <<>>, {})
        unmatched_papers ==
            SelectSeq(ps, LAMBDA paper : paper.arxiv_id \notin looped.all_matched)
    IN  IF unmatched_papers # <<>>
        THEN DictSet(looped.grouped, Uncategorized, unmatched_papers)
        ELSE looped.grouped

\* filter_papers raises: some group's inner loop does (no try/except in
\* lines 41-64)
filter_papers_raises(kw, ps) ==
    \E g \in 1..Len(kw) : IterRaises(ps, kw[g].value)

\* float comparison a >= b and a = b
FracGeq(a, b) == a.num * b.den >= b.num * a.den
FracEq(a, b) == a.num * b.den = b.num * a.den

\* the min_relevance values of the calls
Thresholds == {Frac(0, 1), DefaultMinRelevance, Frac(1, 2), Frac(1, 1)}

\* set(q)
PySet(q) == {q[k] : k \in 1..Len(q)}

\* lines 147-149: all_keywords, the keyword lists of all groups one after
\* the other, repeats kept
RECURSIVE ExtendAll(_, _)
ExtendAll(kw, g) ==
    IF g > Len(kw) THEN <<>> ELSE kw[g].value \o ExtendAll(kw, g + 1)

\* all_keywords.extend(keyword_list) (line 149) raises TypeError on None
ExtendRaises(kw) == \E g \in 1..Len(kw) : kw[g].value = NoneList

\* min(matches / unique_keywords, 1.0)
MinRatio(matches, unique_keywords) ==
    IF matches >= unique_keywords THEN Frac(1, 1)
    ELSE Frac(matches, unique_keywords)

\* _calculate_relevance (lines 147-164)
_calculate_relevance(kw, paper) ==
    LET all_keywords == ExtendAll(kw, 1)
        text == Lower(paper.title \o <<" ">> \o paper.summary)
        matches == Cardinality({k \in 1..Len(all_keywords) :
                                   StrContains(text, Lower(all_keywords[k]))})
        unique_keywords == Cardinality(PySet(all_keywords))
    IN  IF unique_keywords = 0 THEN Frac(0, 1)
        ELSE MinRatio(matches, unique_keywords)

\* paper["relevance_score"] = score
WithScore(paper, score) ==
    [arxiv_id |-> paper.arxiv_id, title |-> paper.title,
     summary |-> paper.summary, relevance_score |-> score]

\* lines 124-128: the records kept, each with its score, in input order
RECURSIVE ScoreLoop(_, _, _, _)
ScoreLoop(kw, ps, min_rel, k) ==
    IF k > Len(ps) THEN <<>>
    ELSE LET score == _calculate_relevance(kw, ps[k])
         IN  (IF FracGeq(score, min_rel) THEN <<WithScore(ps[k], score)>>
              ELSE <<>>) \o ScoreLoop(kw, ps, min_rel, k + 1)

\* list.sort(key=relevance_score, reverse=True) puts a record behind every
\* record whose score is at least its own: the sort is stable
RECURSIVE SortByScoreDesc(_)
SortByScoreDesc(q) ==
    IF q = <<>> THEN <<>>
    ELSE LET last == q[Len(q)]
             front == SortByScoreDesc(SubSeq(q, 1, Len(q) - 1))
         IN  SelectSeq(front, LAMBDA p :
                 FracGeq(p.relevance_score, last.relevance_score))
             \o <<last>>
             \o SelectSeq(front, LAMBDA p :
                 ~FracGeq(p.relevance_score, last.relevance_score))

filter_by_relevance_unsorted(kw, ps, min_rel) == ScoreLoop(kw, ps, min_rel, 1)

\* filter_by_relevance (lines 122-135): the list returned
filter_by_relevance(kw, ps, min_rel) ==
    SortByScoreDesc(ScoreLoop(kw, ps, min_rel, 1))

(***************************************************************************)
(* PaperFilter: the state machine                                          *)
(***************************************************************************)

\* no compile is under way
IdleCompile ==
    /\ attempts = 0
    /\ latex_files = <<>>
    /\ output_dir = NoneDir
    /\ fs = {}
    /\ pc = "idle"
    /\ idx = 0
    /\ successful = <<>>
    /\ attempt = 0
    /\ runs = <<>>
    /\ engine = "not probed"
    /\ lastRun = NoRun
    /\ log = <<>>
    /\ results = <<>>
    /\ unlink_failed = {}
    /\ alive = {}

InitFilter ==
    /\ IdleCompile
    /\ IdleFetch
    /\ IdleLatex
    /\ IdleGenerate
    /\ IdleScheduler
    /\ keywords \in RuleSets
    /\ papers \in PaperLists
    /\ grouped_papers = <<>>
    /\ fpc = "ready"
    /\ relevance = NoRelevance
    /\ min_relevance = DefaultMinRelevance
    /\ scored_papers = <<>>
    /\ match_any = FALSE
    /\ kw_call = NoKwCall

\* paper_filter.filter_papers(papers, match_any): returns the mapping, or
\* raises; no line of filter_papers reads match_any
FilterPapers ==
    /\ fpc = "ready"
    /\ match_any' \in BOOLEAN
    /\ IF filter_papers_raises(keywords, papers)
       THEN grouped_papers' = grouped_papers /\ fpc' = "raised"
       ELSE grouped_papers' = filter_papers(keywords, papers) /\ fpc' = "returned"
    /\ UNCHANGED <<keywords, papers, relevance, min_relevance, scored_papers,
                   kw_call>>
    /\ UNCHANGED exceptFilter

\* paper_filter._calculate_relevance(paper) for one of the records
CalculateRelevance ==
    /\ fpc = "ready"
    /\ \E i \in 1..Len(papers) :
          IF ExtendRaises(keywords)
          THEN relevance' = relevance /\ fpc' = "raised"
          ELSE /\ relevance' =
                    [paper |-> i, score |-> _calculate_relevance(keywords, papers[i])]
               /\ fpc' = "calculated"
    /\ UNCHANGED <<keywords, papers, grouped_papers, min_relevance, scored_papers,
                   match_any, kw_call>>
    /\ UNCHANGED exceptFilter

\* paper_filter.filter_by_relevance(papers, min_relevance): returns the list
\* and leaves the score in every record it kept, or raises at the first
\* record
FilterByRelevance ==
    /\ fpc = "ready"
    /\ \E min_rel \in Thresholds :
          /\ min_relevance' = min_rel
          /\ IF papers # <<>> /\ ExtendRaises(keywords)
             THEN scored_papers' = scored_papers /\ papers' = papers
                  /\ fpc' = "raised"
             ELSE /\ scored_papers' = filter_by_relevance(keywords, papers, min_rel)
                  /\ papers' = [k \in 1..Len(papers) |->
                        LET score == _calculate_relevance(keywords, papers[k])
                        IN  IF FracGeq(score, min_rel)
                            THEN WithScore(papers[k], score) ELSE papers[k]]
                  /\ fpc' = "scored"
    /\ UNCHANGED <<keywords, grouped_papers, relevance, match_any, kw_call>>
    /\ UNCHANGED exceptFilter

\* self._keyword_matches(keyword, text_to_search) as _matches_keywords calls
\* it (lines 78-85) for one keyword and one of the records
KeywordMatches ==
    /\ fpc = "ready"
    /\ \E keyword \in Keywords, i \in 1..Len(papers) :
          LET text_to_search ==
                 Lower(papers[i].title) \o <<" ">> \o Lower(papers[i].summary)
          IN  kw_call' = [keyword |-> keyword, paper |-> i,
                          result |-> _keyword_matches(keyword, text_to_search)]
    /\ fpc' = "keyword matched"
    /\ UNCHANGED <<keywords, papers, grouped_papers, relevance, min_relevance,
                   scored_papers, match_any>>
    /\ UNCHANGED exceptFilter

NextFilter ==
    FilterPapers \/ CalculateRelevance \/ FilterByRelevance \/ KeywordMatches

SpecFilter == InitFilter /\ [][NextFilter]_vars

(***************************************************************************)
(* PaperFilter: properties                                                 *)
(***************************************************************************)

SeqRange(q) == {q[k] : k \in 1..Len(q)}

\* the records of ps that match no rule group, in input order
MatchNoGroup(kw, ps) ==
    SelectSeq(ps, LAMBDA paper :
        \A g \in 1..Len(kw) : ~_matches_keywords(paper, kw[g].value))

\* C8 as stated: every input record is in at least one returned group, and
\* the members of all returned groups together are the input records.
C8_Original ==
    fpc = "returned" =>
        /\ \A i \in 1..Len(papers) :
              \E k \in 1..Len(grouped_papers) :
                  papers[i] \in SeqRange(grouped_papers[k].value)
        /\ UNION {SeqRange(grouped_papers[k].value) : k \in 1..Len(grouped_papers)}
              = SeqRange(papers)

\* the returned group "uncategorized", empty when the key is absent
UncategorizedGroup ==
    IF Uncategorized \in DictKeys(grouped_papers)
    THEN DictGet(grouped_papers, Uncategorized) ELSE <<>>

\* C9 as stated: the returned "uncategorized" group is the input records
\* that matched zero rule groups, in input order, and none of its members
\* matches a rule group.
C9_Original ==
    fpc = "returned" =>
        /\ UncategorizedGroup = MatchNoGroup(keywords, papers)
        /\ \A p \in SeqRange(UncategorizedGroup) :
              \A g \in 1..Len(keywords) : ~_matches_keywords(p, keywords[g].value)

\* C10 as stated: the returned keys are the rule group names, a group that
\* matched nothing being mapped to the empty sequence, plus "uncategorized"
\* exactly when some input record matched no rule group.
C10_Original ==
    fpc = "returned" =>
        /\ DictKeys(grouped_papers) =
              DictKeys(keywords) \cup
                 (IF MatchNoGroup(keywords, papers) # <<>> THEN {Uncategorized} ELSE {})
        /\ \A g \in 1..Len(keywords) :
              MatchedPapers(papers, keywords[g].value) = <<>>
                  => DictGet(grouped_papers, keywords[g].name) = <<>>

\* the text a record is searched in: lower-cased title + " " + abstract
SearchText(paper) == Lower(paper.title \o <<" ">> \o paper.summary)

\* C11 as stated: for every rule group G, a record is a member of the
\* returned group G exactly when some keyword of G matches the record's
\* lower-cased text (whatever the other groups are), and the members of G are
\* in input order.
C11_Original ==
    fpc = "returned" =>
        \A g \in 1..Len(keywords) :
            LET G == DictGet(grouped_papers, keywords[g].name)
            IN  /\ \A i \in 1..Len(papers) :
                      papers[i] \in SeqRange(G) <=>
                          \E k \in 1..Len(keywords[g].value) :
                              _keyword_matches(keywords[g].value[k],
                                               SearchText(papers[i]))
                /\ \A a, b \in 1..Len(G) :
                      a < b => G[a].arxiv_id < G[b].arxiv_id

\* the rule set has a group mapped to no list
HasNoneList(kw) == \E g \in 1..Len(kw) : kw[g].value = NoneList

\* C12 as stated: with a group whose keyword list is missing, filter_papers
\* completes without an error, that group is returned with an empty
\* sequence, and the other groups hold the records that match them.
C12_Original ==
    (fpc # "ready" /\ HasNoneList(keywords)) =>
        /\ fpc = "returned"
        /\ \A g \in 1..Len(keywords) :
              keywords[g].name # Uncategorized =>
                 DictGet(grouped_papers, keywords[g].name) =
                    (IF keywords[g].value = NoneList THEN <<>>
                     ELSE MatchedPapers(papers, keywords[g].value))

\* the distinct keywords of the flattened rule set
DistinctKeywords(kw) == UNION {SeqRange(kw[g].value) : g \in 1..Len(kw)}

\* the distinct keywords that occur in the record's text, case ignored
MatchedDistinct(kw, paper) ==
    {k \in DistinctKeywords(kw) : StrContains(SearchText(paper), Lower(k))}

\* C14 as stated: the score of a record is min(m / u, 1), u the number of
\* distinct keywords of the flattened rule set and m the number of those
\* that occur in the record's text, each counted once however many groups
\* list it; the score is 0 when u = 0.
C14_Original ==
    fpc = "calculated" =>
        LET u == Cardinality(DistinctKeywords(keywords))
            m == Cardinality(MatchedDistinct(keywords, papers[relevance.paper]))
        IN  FracEq(relevance.score,
                   IF u = 0 THEN Frac(0, 1)
                   ELSE IF m >= u THEN Frac(1, 1) ELSE Frac(m, u))

\* C15: filter_by_relevance returns exactly the input records whose score is
\* at least min_relevance, every one once and carrying its score in
\* relevance_score, ordered by descending score, records of equal score in
\* input order.
C15_ThresholdAndOrder ==
    fpc = "scored" =>
        /\ {scored_papers[j].arxiv_id : j \in 1..Len(scored_papers)} =
              {papers[k].arxiv_id : k \in
                 {i \in 1..Len(papers) :
                    FracGeq(_calculate_relevance(keywords, papers[i]), min_relevance)}}
        /\ \A j \in 1..Len(scored_papers) :
              /\ scored_papers[j] = papers[scored_papers[j].arxiv_id]
              /\ scored_papers[j].relevance_score =
                    _calculate_relevance(keywords, scored_papers[j])
        /\ \A a, b \in 1..Len(scored_papers) :
              a < b =>
                 LET sa == scored_papers[a].relevance_score
                     sb == scored_papers[b].relevance_score
                 IN  /\ FracGeq(sa, sb)
                     /\ FracEq(sa, sb) =>
                           scored_papers[a].arxiv_id < scored_papers[b].arxiv_id

\* the default threshold and a universe of two keywords: the first record
\* matches one keyword, the second both; the call returned the second (score
\* 1) before the first (score 0.5)
C15_Witness ==
    /\ fpc = "scored"
    /\ min_relevance = DefaultMinRelevance
    /\ Cardinality(DistinctKeywords(keywords)) = 2
    /\ Len(papers) = 2
    /\ Len(scored_papers) = 2
    /\ scored_papers[1].arxiv_id = 2
    /\ scored_papers[2].relevance_score = Frac(1, 2)

\* the default threshold and a universe of two keywords: the record that
\* matches none (score 0) is left out, the one that matches one (score 0.5)
\* is returned
C15_Example ==
    /\ fpc = "scored"
    /\ min_relevance = DefaultMinRelevance
    /\ Cardinality(DistinctKeywords(keywords)) = 2
    /\ Len(papers) = 2
    /\ MatchedDistinct(keywords, papers[1]) = {}
    /\ Len(scored_papers) = 1
    /\ scored_papers[1].arxiv_id = 2
    /\ scored_papers[1].relevance_score = Frac(1, 2)

(***************************************************************************)
(* ArxivFetcher._remove_duplicates                                         *)
(*                                                                         *)
(* fetch_papers and fetch_by_keywords collect the records of the arXiv     *)
(* results in result order and hand the list to _remove_duplicates.  The   *)
(* same identifier can come back more than once, with different contents.  *)
(***************************************************************************)

ArxivIds == {"x", "y", "z"}

\* the contents two records of one identifier may differ in
Versions == {"v1", "v2"}

\* the lists handed to _remove_duplicates
FetchedLists ==
    UNION {[1..n -> [arxiv_id : ArxivIds, title : Versions]] : n \in 0..MaxFetched}

\* keeps the last record of every identifier
RECURSIVE LastWinsLoop(_, _)
LastWinsLoop(ps, k) ==
    IF k > Len(ps) THEN <<>>
    ELSE (IF \E j \in (k + 1)..Len(ps) : ps[j].arxiv_id = ps[k].arxiv_id
          THEN <<>> ELSE <<ps[k]>>) \o LastWinsLoop(ps, k + 1)

_remove_duplicates_last_wins(ps) == LastWinsLoop(ps, 1)

\* the loop of lines 110-114 from record k on
RECURSIVE DedupLoop(_, _, _, _)
DedupLoop(ps, k, seen_ids, unique) ==
    IF k > Len(ps) THEN unique
    ELSE IF ps[k].arxiv_id \notin seen_ids
         THEN DedupLoop(ps, k + 1, seen_ids \cup {ps[k].arxiv_id},
                        Append(unique, ps[k]))
         ELSE DedupLoop(ps, k + 1, seen_ids, unique)

\* _remove_duplicates (lines 107-116)
_remove_duplicates(ps) == DedupLoop(ps, 1, {}, <<>>)

InitFetch ==
    /\ IdleCompile
    /\ IdleFilter
    /\ IdleLatex
    /\ IdleGenerate
    /\ IdleScheduler
    /\ raw_papers \in FetchedLists
    /\ unique_papers = <<>>
    /\ dpc = "fetched"

\* unique_papers = self._remove_duplicates(papers)
RemoveDuplicates ==
    /\ dpc = "fetched"
    /\ unique_papers' = _remove_duplicates(raw_papers)
    /\ dpc' = "returned"
    /\ UNCHANGED raw_papers
    /\ UNCHANGED exceptFetch

\* _remove_duplicates applied to the list it returned
RemoveDuplicatesAgain ==
    /\ dpc = "returned"
    /\ raw_papers' = unique_papers
    /\ unique_papers' = _remove_duplicates(unique_papers)
    /\ dpc' = "reapplied"
    /\ UNCHANGED exceptFetch

NextFetch == RemoveDuplicates \/ RemoveDuplicatesAgain

SpecFetch == InitFetch /\ [][NextFetch]_vars

\* position of the first record of ps with the identifier id
FirstIndex(ps, id) ==
    CHOOSE k \in 1..Len(ps) :
        ps[k].arxiv_id = id /\ \A j \in 1..(k - 1) : ps[j].arxiv_id # id

\* C13: the list _remove_duplicates returns holds every identifier of its
\* input exactly once (and no other), the record kept for an identifier is
\* the one of its first occurrence, the kept records are ordered by the
\* position of their first occurrence, an empty input gives an empty output,
\* and applied to its own output it returns that output.
C13_FirstSeenWins ==
    dpc \in {"returned", "reapplied"} =>
        /\ \A k \in 1..Len(raw_papers) :
              Cardinality({j \in 1..Len(unique_papers) :
                  unique_papers[j].arxiv_id = raw_papers[k].arxiv_id}) = 1
        /\ \A j \in 1..Len(unique_papers) :
              unique_papers[j] =
                  raw_papers[FirstIndex(raw_papers, unique_papers[j].arxiv_id)]
        /\ \A a, b \in 1..Len(unique_papers) :
              a < b => FirstIndex(raw_papers, unique_papers[a].arxiv_id)
                          < FirstIndex(raw_papers, unique_papers[b].arxiv_id)
        /\ raw_papers = <<>> => unique_papers = <<>>
        /\ dpc = "reapplied" => unique_papers = raw_papers

\* a list with a repeated identifier, whose later record differs from the
\* first, was deduplicated
C13_Witness ==
    /\ dpc = "returned"
    /\ Len(raw_papers) = 3
    /\ raw_papers[3] = [arxiv_id |-> "y", title |-> "v1"]
    /\ Len(unique_papers) = 2
    /\ unique_papers[1] = [arxiv_id |-> "y", title |-> "v2"]
    /\ unique_papers[2] = [arxiv_id |-> "x", title |-> "v1"]

(***************************************************************************)
(* LatexGenerator: the filters _latex_escape and _truncate_latex           *)
(*                                                                         *)
(* A text is a sequence of one-character strings; "\\" is the backslash.   *)
(***************************************************************************)

\* replacements (lines 69-80), in the dict's order
Replacements ==
    << [char |-> "&", escaped |-> <<"\\", "&">>],
       [char |-> "%", escaped |-> <<"\\", "%">>],
       [char |-> "$", escaped |-> <<"\\", "$">>],
       [char |-> "#", escaped |-> <<"\\", "#">>],
       [char |-> "_", escaped |-> <<"\\", "_">>],
       [char |-> "{", escaped |-> <<"\\", "{">>],
       [char |-> "}", escaped |-> <<"\\", "}">>],
       [char |-> "~", escaped |-> <<"\\", "t", "e", "x", "t", "a", "s", "c", "i",
                                    "i", "t", "i", "l", "d", "e", "{", "}">>],
       [char |-> "^", escaped |-> <<"\\", "^", "{", "}">>],
       [char |-> "\\", escaped |-> <<"\\", "t", "e", "x", "t", "b", "a", "c", "k",
                                     "s", "l", "a", "s", "h", "{", "}">>] >>

\* the reserved characters
Reserved == {Replacements[r].char : r \in 1..Len(Replacements)}

\* the characters of the short texts: the reserved ones and a letter
TextChars == Reserved \cup {"a"}

\* a string of 20 characters
TwentyChars == [k \in 1..20 |-> "a"]

\* the texts given to the filters
Texts == UNION {[1..n -> TextChars] : n \in 0..MaxText} \cup {TwentyChars}

\* the suffixes given to _truncate_latex
Suffixes == {DefaultSuffix, <<"+">>}

\* text.replace(char, escaped) for a one-character char
RECURSIVE Replace(_, _, _)
Replace(t, char, escaped) ==
    IF t = <<>> THEN <<>>
    ELSE (IF Head(t) = char THEN escaped ELSE <<Head(t)>>)
         \o Replace(Tail(t), char, escaped)

\* the loop of lines 82-83 from replacement r on
RECURSIVE EscapeLoop(_, _)
EscapeLoop(t, r) ==
    IF r > Len(Replacements) THEN t
    ELSE EscapeLoop(Replace(t, Replacements[r].char, Replacements[r].escaped),
                    r + 1)

\* _latex_escape (lines 69-85)
_latex_escape(t) == EscapeLoop(t, 1)

\* the slice t[:n]
SliceTo(t, n) ==
    IF n >= 0 THEN SubSeq(t, 1, IF n < Len(t) THEN n ELSE Len(t))
    ELSE SubSeq(t, 1, Len(t) + n)

_truncate_latex_strict(t, max_len, sfx) ==
    IF Len(t) < max_len THEN t
    ELSE SliceTo(t, max_len - Len(sfx)) \o sfx

\* _truncate_latex (lines 100-102)
_truncate_latex(t, max_len, sfx) ==
    IF Len(t) <= max_len THEN t
    ELSE SliceTo(t, max_len - Len(sfx)) \o sfx

InitLatex ==
    /\ IdleCompile
    /\ IdleFilter
    /\ IdleFetch
    /\ IdleGenerate
    /\ IdleScheduler
    /\ latex_text \in Texts
    /\ max_length \in 0..MaxLength
    /\ suffix \in Suffixes
    /\ latex_out = <<>>
    /\ lpc = "ready"

\* text|latex_escape
LatexEscape ==
    /\ lpc = "ready"
    /\ latex_out' = _latex_escape(latex_text)
    /\ lpc' = "escaped"
    /\ UNCHANGED <<latex_text, max_length, suffix>>
    /\ UNCHANGED exceptLatex

\* _truncate_latex(text, max_length, suffix)
TruncateLatex ==
    /\ lpc = "ready"
    /\ latex_out' = _truncate_latex(latex_text, max_length, suffix)
    /\ lpc' = "truncated"
    /\ UNCHANGED <<latex_text, max_length, suffix>>
    /\ UNCHANGED exceptLatex

\* _truncate_latex applied to the text it returned, same max_length and suffix
TruncateAgain ==
    /\ lpc = "truncated"
    /\ latex_text' = latex_out
    /\ latex_out' = _truncate_latex(latex_out, max_length, suffix)
    /\ lpc' = "truncated twice"
    /\ UNCHANGED <<max_length, suffix>>
    /\ UNCHANGED exceptLatex

\* the built-in template's line 256:
\* paper.summary|latex_escape|truncate_latex(abstract_max_length)
RenderSummary ==
    /\ lpc = "ready"
    /\ suffix = DefaultSuffix
    /\ latex_out' = _truncate_latex(_latex_escape(latex_text), max_length,
                                   DefaultSuffix)
    /\ lpc' = "rendered"
    /\ UNCHANGED <<latex_text, max_length, suffix>>
    /\ UNCHANGED exceptLatex

NextLatex == LatexEscape \/ TruncateLatex \/ TruncateAgain \/ RenderSummary

SpecLatex == InitLatex /\ [][NextLatex]_vars

(***************************************************************************)
(* LatexGenerator filters: properties                                      *)
(***************************************************************************)

\* the escape sequence meant for one character (the table of lines 69-80)
EscapeOf(c) ==
    IF c \in Reserved
    THEN Replacements[CHOOSE r \in 1..Len(Replacements) :
                          Replacements[r].char = c].escaped
    ELSE <<c>>

\* the escape sequences of the characters of t, one after the other
RECURSIVE CharByChar(_)
CharByChar(t) ==
    IF t = <<>> THEN <<>> ELSE EscapeOf(Head(t)) \o CharByChar(Tail(t))

\* C16 as stated: the output of _latex_escape is the concatenation, character
\* by character, of the escape sequence of every reserved input character and
\* of every other input character itself, so that no reserved character of
\* the output is outside an escape sequence.
C16_Original ==
    lpc = "escaped" => latex_out = CharByChar(latex_text)

\* t ends with sfx
EndsWith(t, sfx) ==
    Len(t) >= Len(sfx) /\ SubSeq(t, Len(t) - Len(sfx) + 1, Len(t)) = sfx

\* C17 as stated: for every text, max_length >= 0 and suffix the result of
\* _truncate_latex is at most max_length long, suffix included, and ends with
\* the suffix whenever the text was longer than max_length.
C17_Original ==
    lpc = "truncated" =>
        /\ Len(latex_out) <= max_length
        /\ Len(latex_text) > max_length => EndsWith(latex_out, suffix)

\* C18: _truncate_latex returns a text of length <= max_length unchanged,
\* length = max_length included; and with max_length >= len(suffix),
\* truncating the result again with the same max_length and suffix returns
\* it unchanged.
C18_ShortTextUnchanged ==
    /\ (lpc = "truncated" /\ Len(latex_text) <= max_length)
          => latex_out = latex_text
    /\ (lpc = "truncated twice" /\ max_length >= Len(suffix))
          => latex_out = latex_text

\* the 20-character text was cut to max_length = 10 characters ending in
\* "...", and that text, whose length is max_length, was truncated again
C18_Witness ==
    /\ lpc = "truncated twice"
    /\ max_length = 10
    /\ suffix = DefaultSuffix
    /\ Len(latex_text) = max_length
    /\ latex_text = SubSeq(TwentyChars, 1, 7) \o DefaultSuffix
    /\ latex_out = latex_text

\* C19 as stated: the abstract text put into the document (escaped, then
\* truncated to abstract_max_length) is never cut inside an escape sequence:
\* it is the whole escaped abstract, or the escaped text of some leading part
\* of the abstract followed by the suffix.
C19_Original ==
    lpc = "rendered" =>
        \/ latex_out = _latex_escape(latex_text)
        \/ \E n \in 0..Len(latex_text) :
              latex_out = _latex_escape(SubSeq(latex_text, 1, n)) \o DefaultSuffix

(***************************************************************************)
(* LatexGenerator.generate_latex                                           *)
(*                                                                         *)
(* The group mapping is a dict from group names to lists of records; a     *)
(* record is written as its identifier, the text of its fields going       *)
(* through the filters above.  The document is written as the values the   *)
(* template prints and its sections.  The external template file is not    *)
(* among the sources: when it loads, the document has the structure the    *)
(* specification gives it, which is the structure the built-in template    *)
(* spells out.                                                             *)
(***************************************************************************)

\* the lists a group may hold
GroupLists == {[k \in 1..n |-> k] : n \in 0..MaxGroupSize}

\* the group mappings: dicts of at most two groups
GroupMappings ==
    {<<>>}
    \cup {<<[name |-> n, value |-> l]>> : n \in {"ai", Uncategorized}, l \in GroupLists}
    \cup {<<[name |-> "ai", value |-> l1], [name |-> Uncategorized, value |-> l2]>> :
            l1 \in GroupLists, l2 \in GroupLists}

\* the output paths: in a directory of its own, or a bare file name
OutputPaths == {[dir |-> "out", name |-> "report.tex"], BarePath}

\* what self.env.get_template(self.template_name) does: it returns the
\* external template, or fails: no such file, or the environment of lines
\* 53-56, which has no loader
TemplateLoads == {"loaded", "TemplateNotFound", "no loader"}

\* _get_builtin_template (lines 187-268): Template(latex_template) parses the
\* text.  In `pdftitle={{{ title }}}` (line 210; lines 241, 244 and 248 too)
\* the first two braces open the expression and the third a dict literal,
\* `{ title }`, with no `:`; parsing fails with TemplateSyntaxError and no
\* template is returned.
_get_builtin_template == "TemplateSyntaxError"

\* lines 160-164: the template generate_latex renders, or the exception
\* raised inside the except clause
TemplateFor(load) ==
    IF load = "loaded" THEN "external" ELSE _get_builtin_template

\* sum(len(paper_list) for paper_list in papers.values()) from group g on
RECURSIVE SumLen(_, _)
SumLen(d, g) == IF g > Len(d) THEN 0 ELSE Len(d[g].value) + SumLen(d, g + 1)

sorted_groups_uncut(d, cap) ==
    [g \in 1..Len(d) |-> [name |-> d[g].name, value |-> d[g].value]]

\* lines 145-147: every group cut to its first max_papers records
sorted_groups(d, cap) ==
    [g \in 1..Len(d) |-> [name |-> d[g].name, value |-> SliceTo(d[g].value, cap)]]

Context_total_after_cap(d, cap) ==
    [groups |-> sorted_groups(d, cap),
     total_papers |-> SumLen(sorted_groups(d, cap), 1),
     total_groups |-> Len(d)]

\* the template context (lines 142-157)
Context(d, cap) ==
    [groups |-> sorted_groups(d, cap),
     total_papers |-> SumLen(d, 1),
     total_groups |-> Len(d)]

\* template.render(**context): the summary items and one section for every
\* group whose list is not empty (the layout of lines 229-264)
Render(ctx) ==
    [total_papers |-> ctx.total_papers,
     total_groups |-> ctx.total_groups,
     sections |-> SelectSeq(ctx.groups, LAMBDA grp : grp.value # <<>>)]

\* os.makedirs(os.path.dirname(output_path), exist_ok=True)
Makedirs(path, dir) ==
    IF path.dir = "" THEN "FileNotFoundError"
    ELSE IF dir = "uncreatable" THEN "PermissionError"
    ELSE "ok"

\* open(output_path, 'w')
OpenForWriting(dir) == IF dir = "unwritable" THEN "PermissionError" ELSE "ok"

InitGenerate ==
    /\ IdleCompile
    /\ IdleFilter
    /\ IdleFetch
    /\ IdleLatex
    /\ IdleScheduler
    /\ group_papers \in GroupMappings
    /\ max_papers \in 0..MaxCap
    /\ template_load \in TemplateLoads
    /\ output_path \in OutputPaths
    /\ dest_dir \in (IF output_path = BarePath THEN {"exists", "unwritable"}
                     ELSE {"missing", "exists", "uncreatable", "unwritable"})
    /\ context = NoContext
    /\ document = NoDocument
    /\ written = FALSE
    /\ gen_result = "none"
    /\ gpc = "called"

\* generate_latex(papers, output_path, max_papers=..): the context, the
\* template, the rendering, the directory, the file
GenerateLatex ==
    /\ gpc = "called"
    /\ context' = Context(group_papers, max_papers)
    /\ LET template == TemplateFor(template_load)
           made == Makedirs(output_path, dest_dir)
           opened == OpenForWriting(dest_dir)
       IN  IF template = "TemplateSyntaxError"
           THEN /\ gen_result' = template
                /\ document' = NoDocument
                /\ written' = FALSE
                /\ dest_dir' = dest_dir
           ELSE /\ document' = Render(context')
                /\ IF made # "ok"
                   THEN gen_result' = made /\ written' = FALSE
                        /\ dest_dir' = dest_dir
                   ELSE /\ dest_dir' =
                             IF dest_dir = "missing" THEN "exists" ELSE dest_dir
                        /\ IF opened # "ok"
                           THEN gen_result' = opened /\ written' = FALSE
                           ELSE gen_result' = "output_path" /\ written' = TRUE
    /\ gpc' = "ended"
    /\ UNCHANGED <<group_papers, max_papers, template_load, output_path>>
    /\ UNCHANGED exceptGenerate

NextGenerate == GenerateLatex

SpecGenerate == InitGenerate /\ [][NextGenerate]_vars

\* generate_latex got as far as rendering a document
Rendered == gpc = "ended" /\ gen_result # "TemplateSyntaxError"

\* C20: the total paper count in the context and in a rendered document is the sum
\* of the sizes of the input groups, uncut, and the group count is the number
\* of input groups, the empty ones counted; max_papers has no part in either.
C20_TotalsBeforeCap ==
    gpc = "ended" =>
        /\ context.total_papers = SumLen(group_papers, 1)
        /\ context.total_groups = Len(group_papers)
        /\ Rendered =>
              /\ document.total_papers = SumLen(group_papers, 1)
              /\ document.total_groups = Len(group_papers)

\* a mapping of an empty group and a group of three records was rendered with
\* max_papers = 1: the document reports 3 papers in 2 groups and lists one
C20_Witness ==
    /\ gpc = "ended"
    /\ written
    /\ Len(group_papers) = 2
    /\ group_papers[1].value = <<>>
    /\ Len(group_papers[2].value) = 3
    /\ max_papers = 1
    /\ document.total_papers = 3
    /\ document.total_groups = 2
    /\ Len(document.sections) = 1
    /\ Len(document.sections[1].value) = 1

\* the sections of the document under one group name
SectionsOf(name) ==
    SelectSeq(document.sections, LAMBDA sec : sec.name = name)

\* the smaller of two numbers
Min(a, b) == IF a < b THEN a ELSE b

\* C21: for every group mapping and cap max_papers >= 0, a rendered document
\* has a section for a group exactly when the group cut to the cap is not empty,
\* and the section lists the first min(max_papers, size) members of the group
\* in input order, never more than max_papers.
C21_SectionsAfterCap ==
    Rendered =>
        /\ \A g \in 1..Len(group_papers) :
              LET members == group_papers[g].value
                  kept == Min(max_papers, Len(members))
                  secs == SectionsOf(group_papers[g].name)
              IN  /\ (secs # <<>>) <=> (kept > 0)
                  /\ kept > 0 =>
                        /\ Len(secs) = 1
                        /\ secs[1].value = SubSeq(members, 1, kept)
                        /\ Len(secs[1].value) <= max_papers
        /\ \A k \in 1..Len(document.sections) :
              document.sections[k].name \in DictKeys(group_papers)

\* an empty group and a group of three records were rendered with the cap 2:
\* no section for the empty group, the first two members in the other
C21_Witness ==
    /\ gpc = "ended"
    /\ max_papers = 2
    /\ Len(group_papers) = 2
    /\ group_papers[1].value = <<>>
    /\ Len(group_papers[2].value) = 3
    /\ Len(document.sections) = 1
    /\ document.sections[1].value = <<1, 2>>

\* the directory of the output path can be made, or is there, and can be
\* written to; the directory of a bare file name is the current directory
DestinationUsable ==
    dest_dir \in {"missing", "exists"}

\* C22 as stated: when loading the named template fails, the environment that
\* could not be set up included, generate_latex does not fail for it: the
\* built-in template renders the document and the document is written.
C22_Original ==
    (gpc = "ended" /\ template_load # "loaded") =>
        /\ gen_result # "TemplateSyntaxError"
        /\ (output_path # BarePath /\ DestinationUsable) => written

\* C23 as stated: for every output path whose directory can be created and
\* written to, a bare file name in a writable current directory included,
\* generate_latex writes the document and returns the output path.
C23_Original ==
    (gpc = "ended" /\ template_load = "loaded" /\ DestinationUsable) =>
        written /\ gen_result = "output_path"

(***************************************************************************)
(* PdfCompiler: clean-up and processes                                     *)
(***************************************************************************)

\* C24 as stated: after a compile that returned its artifact (clean_aux on),
\* the artifact exists and none of the document's auxiliary files is left in
\* the directory the engine wrote them to, save those whose deletion failed;
\* a failed deletion neither fails the compile nor stops the other deletions.
C24_Original ==
    (CompileEnded /\ LastResult.ret.kind = "path") =>
        /\ File(LastResult.ret.dir, LastResult.doc, "pdf") \in fs
        /\ \A e \in AuxExtSet \ unlink_failed :
              File(EngineDir, LastResult.doc, e) \notin fs

\* C25: during a compile at most one engine process runs at a time; between
\* the calls of subprocess.run none runs; a process whose attempt timed out
\* has been killed when the attempt returns, and when compile has returned,
\* with an artifact, with None or by raising, none of its processes runs.
C25_OneProcessAtATime ==
    /\ Cardinality(alive) <= 1
    /\ pc \notin {"probe_running", "process_running"} => alive = {}
    /\ pc = "process_running" => alive \subseteq {attempt + 1}
    /\ CompileEnded => alive = {}

\* the first attempt succeeded, the second timed out and compile returned
\* None: no process is left
C25_Witness ==
    /\ CompileEnded
    /\ Len(runs) = 2
    /\ runs[1].success
    /\ LastResult.failKind = "timeout"
    /\ alive = {}

(***************************************************************************)
(* PaperFilter: match_any, the catch-all key, _keyword_matches             *)
(***************************************************************************)

\* C26 as stated: with match_any = False a record is matched, and so listed
\* in a rule group, only if it matches a keyword of every group (with
\* match_any = True, if it matches any keyword).
C26_Original ==
    (fpc = "returned" /\ ~match_any /\ Uncategorized \notin DictKeys(keywords)) =>
        \A g \in 1..Len(keywords) :
            \A p \in SeqRange(DictGet(grouped_papers, keywords[g].name)) :
                \A h \in 1..Len(keywords) : _matches_keywords(p, keywords[h].value)

\* C27 as stated: the list returned under every rule group's name, a rule
\* group named "uncategorized" included, is the records that match that
\* group's keywords, in input order.
C27_Original ==
    fpc = "returned" =>
        \A g \in 1..Len(keywords) :
            DictGet(grouped_papers, keywords[g].name) =
                MatchedPapers(papers, keywords[g].value)

SleepSeconds == 60

\* self.thread.join(timeout=5)
JoinTimeout == 5

\* a loop thread: where it stands in _run_scheduler and, while it sleeps, the
\* seconds of the sleep that are left
LoopThread(at, left) == [pc |-> at, sleep_left |-> left]

\* the threads that have not left _run_scheduler
AliveThreads == {t \in 1..Len(threads) : threads[t].pc # "exited"}

Max(a, b) == IF a >= b THEN a ELSE b

\* no start() or stop() is under way in the calling thread
CallerIdle == spc = "idle"

InitScheduler ==
    /\ IdleCompile
    /\ IdleFilter
    /\ IdleFetch
    /\ IdleLatex
    /\ IdleGenerate
    /\ IdleScheduler

\* schedule_daily / schedule_interval: one more job in schedule's list
ScheduleDaily ==
    /\ CallerIdle
    /\ jobs < MaxJobs
    /\ jobs' = jobs + 1
    /\ UNCHANGED <<running, thread, threads, spc, join_left, stopped,
                   ran_since_stop, last_call>>
    /\ UNCHANGED exceptScheduler

\* start(): nothing while self.running, else a new thread at the top of the loop
Start ==
    /\ CallerIdle
    /\ IF running
          THEN /\ last_call' = "already running"
               /\ UNCHANGED <<running, thread, threads>>
          ELSE /\ Len(threads) < MaxThreads
               /\ running' = TRUE
               /\ threads' = Append(threads, LoopThread("while", 0))
               /\ thread' = Len(threads) + 1
               /\ last_call' = "started"
    /\ UNCHANGED <<spc, join_left, jobs, stopped, ran_since_stop>>
    /\ UNCHANGED exceptScheduler

\* stop() up to the join: the flag, schedule.clear(), then join(timeout=5)
\* when self.thread is set; without a thread stop() returns at once
Stop ==
    /\ CallerIdle
    /\ running' = FALSE
    /\ jobs' = 0
    /\ IF thread # 0
          THEN /\ spc' = "joining"
               /\ join_left' = JoinTimeout
               /\ UNCHANGED <<ran_since_stop, last_call>>
          ELSE /\ ran_since_stop' = {}
               /\ last_call' = "stopped"
               /\ UNCHANGED <<spc, join_left>>
    /\ UNCHANGED <<thread, threads, stopped>>
    /\ UNCHANGED exceptScheduler

\* the join ends when the thread has ended or the timeout has passed, and
\* stop() returns; self.thread is left as it is
JoinReturns ==
    /\ spc = "joining"
    /\ threads[thread].pc = "exited" \/ join_left = 0
    /\ spc' = "idle"
    /\ join_left' = 0
    /\ stopped' = stopped \cup {thread}
    /\ ran_since_stop' = {}
    /\ last_call' = "stopped"
    /\ UNCHANGED <<running, thread, threads, jobs>>
    /\ UNCHANGED exceptScheduler

\* `while self.running:` read by thread t
LoopCheck(t) ==
    /\ threads[t].pc = "while"
    /\ threads' = [threads EXCEPT ![t] =
                      LoopThread(IF running THEN "run_pending" ELSE "exited", 0)]
    /\ UNCHANGED <<running, thread, spc, join_left, jobs, stopped,
                   ran_since_stop, last_call>>
    /\ UNCHANGED exceptScheduler

\* schedule.run_pending() in thread t reads the job list: a registered job
\* may be due and starts, else the thread goes to sleep for 60 seconds
RunPending(t) ==
    /\ threads[t].pc = "run_pending"
    /\ \E due \in (IF jobs > 0 THEN BOOLEAN ELSE {FALSE}) :
          /\ ran_since_stop' = IF due THEN ran_since_stop \cup {t}
                                      ELSE ran_since_stop
          /\ threads' = [threads EXCEPT ![t] =
                            IF due THEN LoopThread("job", 0)
                                   ELSE LoopThread("sleep", SleepSeconds)]
    /\ UNCHANGED <<running, thread, spc, join_left, jobs, stopped, last_call>>
    /\ UNCHANGED exceptScheduler

\* the job of thread t ends: if it raised, the loop logs the error and tests
\* the flag again, else the thread goes to sleep for 60 seconds
JobEnds(t) ==
    /\ threads[t].pc = "job"
    /\ \E raised \in BOOLEAN :
          threads' = [threads EXCEPT ![t] =
                         IF raised THEN LoopThread("while", 0)
                                   ELSE LoopThread("sleep", SleepSeconds)]
    /\ UNCHANGED <<running, thread, spc, join_left, jobs, stopped,
                   ran_since_stop, last_call>>
    /\ UNCHANGED exceptScheduler

\* time.sleep(60) returns in thread t
Wake(t) ==
    /\ threads[t].pc = "sleep"
    /\ threads[t].sleep_left = 0
    /\ threads' = [threads EXCEPT ![t] = LoopThread("while", 0)]
    /\ UNCHANGED <<running, thread, spc, join_left, jobs, stopped,
                   ran_since_stop, last_call>>
    /\ UNCHANGED exceptScheduler

\* what happens before any more time passes: a sleep that has run out ends,
\* a thread at the top of the loop reads the flag, a join whose thread has
\* ended or whose timeout has passed returns, run_pending with no job due
\* returns; a job may take any time
TimerDue ==
    \/ \E t \in 1..Len(threads) :
          \/ threads[t].pc = "sleep" /\ threads[t].sleep_left = 0
          \/ threads[t].pc \in {"while", "run_pending"}
    \/ spc = "joining" /\ (join_left = 0 \/ threads[thread].pc = "exited")

\* JoinTimeout seconds pass for every sleep and for the join
Tick ==
    /\ ~TimerDue
    /\ \/ spc = "joining"
       \/ \E t \in 1..Len(threads) : threads[t].pc = "sleep"
    /\ join_left' = IF spc = "joining" THEN Max(0, join_left - JoinTimeout)
                                       ELSE join_left
    /\ threads' = [t \in 1..Len(threads) |->
                      IF threads[t].pc = "sleep"
                         THEN LoopThread("sleep",
                                  Max(0, threads[t].sleep_left - JoinTimeout))
                         ELSE threads[t]]
    /\ UNCHANGED <<running, thread, spc, jobs, stopped, ran_since_stop,
                   last_call>>
    /\ UNCHANGED exceptScheduler

NextScheduler ==
    \/ ScheduleDaily
    \/ Start
    \/ Stop
    \/ JoinReturns
    \/ \E t \in 1..Len(threads) : LoopCheck(t)
    \/ \E t \in 1..Len(threads) : RunPending(t)
    \/ \E t \in 1..Len(threads) : JobEnds(t)
    \/ \E t \in 1..Len(threads) : Wake(t)
    \/ Tick

SpecScheduler == InitScheduler /\ [][NextScheduler]_vars

\* C29: whenever no start() or stop() is under way, at most one loop thread is
\* alive, and no thread for which a stop() has returned has started a job
\* since that stop() returned
C29_Original ==
    CallerIdle =>
        /\ Cardinality(AliveThreads) <= 1
        /\ ran_since_stop \cap stopped = {}

====
